---- MODULE Spec2Model ----
(***************************************************************************)
(* Model of analyze_docs.py: the documentation-coverage script.            *)
(*                                                                         *)
(*   analyze_file(filepath)  reads a file, finds the declaration lines     *)
(*                           with one regular expression, and counts those *)
(*                           with a '///' in the 10 lines above them;      *)
(*   the module-level loop   walks a directory tree, analyzes every        *)
(*                           *.swift file, accumulates two totals and      *)
(*                           prints one line per file and an overall line. *)
(*                                                                         *)
(* Text is modelled at the level of characters: a line is a sequence of    *)
(* one-character strings, a file's text a sequence of lines.               *)
(***************************************************************************)
EXTENDS Integers, Sequences, FiniteSets, TLC

VARIABLES
    lines, ret, apc,                       \* one call of analyze_file
    tree, pc, di, fi, filepath,            \* the walk of the module-level loop
    funcs, docs, coverage,
    total_funcs, total_documented,
    overall_coverage, out,
    run, prev_out,                         \* a second execution of the script
    pdocs, pfuncs, ptext                   \* one formatting of a percentage

vars == <<lines, ret, apc, tree, pc, di, fi, filepath, funcs, docs, coverage,
          total_funcs, total_documented, overall_coverage, out, run, prev_out,
          pdocs, pfuncs, ptext>>

analyzeVars == <<lines, ret, apc>>
walkVars == <<tree, pc, di, fi, filepath, funcs, docs, coverage,
              total_funcs, total_documented, overall_coverage, out>>
runVars == <<run, prev_out>>
pctVars == <<pdocs, pfuncs, ptext>>

(***************************************************************************)
(* Bounds of the model.                                                    *)
(***************************************************************************)
MaxLines == 12      \* lines of a file given to analyze_file
MaxGap == 1         \* spaces between two tokens of a generated line
MaxFiles == 2       \* files under the walked root
MaxCount == 16      \* declarations in the counts given to the formatting

(***************************************************************************)
(* Characters.                                                             *)
(***************************************************************************)
\* Python's \s, restricted to the whitespace the model's lines use.
WhiteSpace == {" ", "\t", "\n"}

\* Python's \w, restricted to the letters, digits and underscore.
WordChars ==
    {"a", "b", "c", "d", "e", "f", "g", "h", "i", "j", "k", "l", "m",
     "n", "o", "p", "q", "r", "s", "t", "u", "v", "w", "x", "y", "z",
     "A", "B", "C", "D", "0", "1", "2", "3", "4", "5", "6", "7", "8", "9", "_"}

kw_public == <<"p", "u", "b", "l", "i", "c">>
kw_private == <<"p", "r", "i", "v", "a", "t", "e">>
kw_internal == <<"i", "n", "t", "e", "r", "n", "a", "l">>
kw_fileprivate == <<"f", "i", "l", "e", "p", "r", "i", "v", "a", "t", "e">>
kw_static == <<"s", "t", "a", "t", "i", "c">>
kw_func == <<"f", "u", "n", "c">>
kw_init == <<"i", "n", "i", "t">>
LParen == <<"(">>
DocMarker == <<"/", "/", "/">>

(***************************************************************************)
(* The regular expression of line 10, as the set of positions a match of   *)
(* each part can end at, given the set of positions it can start at: the   *)
(* pattern matches iff some way through it exists, which is what the       *)
(* backtracking matcher decides.  Positions are 1-based; Len(s)+1 is the   *)
(* end of the line.                                                        *)
(***************************************************************************)
\* a literal word w
Lit(w, s, P) ==
    {p + Len(w) : p \in {q \in P : /\ q + Len(w) - 1 <= Len(s)
                                   /\ SubSeq(s, q, q + Len(w) - 1) = w}}

\* C* for a character class C
ClassStar(C, s, P) ==
    {q \in 1..(Len(s) + 1) : \E p \in P : /\ p <= q
                                          /\ \A k \in p..(q - 1) : s[k] \in C}

\* C+ for a character class C
ClassPlus(C, s, P) ==
    {q \in 1..(Len(s) + 1) : \E p \in P : /\ p < q
                                          /\ \A k \in p..(q - 1) : s[k] \in C}

\* (public\s+|private\s+|internal\s+|fileprivate\s+)?
VisibilityOpt(s, P) ==
    P \cup ClassPlus(WhiteSpace, s, Lit(kw_public, s, P))
      \cup ClassPlus(WhiteSpace, s, Lit(kw_private, s, P))
      \cup ClassPlus(WhiteSpace, s, Lit(kw_internal, s, P))
      \cup ClassPlus(WhiteSpace, s, Lit(kw_fileprivate, s, P))

\* (static\s+)?
StaticOpt(s, P) == P \cup ClassPlus(WhiteSpace, s, Lit(kw_static, s, P))

\* func\s+\w+
FuncAlt(s, P) ==
    ClassPlus(WordChars, s, ClassPlus(WhiteSpace, s, Lit(kw_func, s, P)))


\* Mutant of line 10: init\( for init\s*\(
InitAltTight(s, P) == Lit(LParen, s, Lit(kw_init, s, P))

\* init\s*\(
InitAlt(s, P) == Lit(LParen, s, ClassStar(WhiteSpace, s, Lit(kw_init, s, P)))

\* re.match(r'^\s*(...)?(static\s+)?(func\s+\w+|init\s*\()', line) is not None
re_match(line) ==
    LET p0 == ClassStar(WhiteSpace, line, {1})
        p1 == VisibilityOpt(line, p0)
        p2 == StaticOpt(line, p1)
    IN  (FuncAlt(line, p2) \cup InitAlt(line, p2)) # {}

(***************************************************************************)
(* analyze_file, from the list readlines() returned.                       *)
(***************************************************************************)
Lookback == 10

Max(a, b) == IF a >= b THEN a ELSE b

\* '///' in line
HasMarker(line) ==
    \E p \in 1..(Len(line) - 2) : SubSeq(line, p, p + 2) = DocMarker

\* func_lines: the 0-based indices of the matching lines, in order
func_lines(ls) ==
    SelectSeq([k \in 1..Len(ls) |-> k - 1], LAMBDA i : re_match(ls[i + 1]))


\* Mutant of line 18: the slice runs through the declaration line itself.
prev_lines_through(ls, line_num) ==
    LET start == Max(0, line_num - Lookback)
    IN  SubSeq(ls, start + 1, line_num + 1)

\* lines[start:line_num] with start = max(0, line_num - 10)
prev_lines(ls, line_num) ==
    LET start == Max(0, line_num - Lookback)
    IN  SubSeq(ls, start + 1, line_num)

\* any('///' in line for line in prev_lines)
IsDocumented(ls, line_num) ==
    LET prev == prev_lines(ls, line_num)
    IN  \E j \in 1..Len(prev) : HasMarker(prev[j])

\* return total, documented
analyze_file(ls) ==
    LET fl == func_lines(ls)
        total == Len(fl)
        documented == Cardinality({k \in 1..Len(fl) : IsDocumented(ls, fl[k])})
    IN  <<total, documented>>

(***************************************************************************)
(* Values of the variables a specification does not use.                   *)
(***************************************************************************)
IdleAnalyze == lines = <<>> /\ ret = <<0, 0>> /\ apc = "idle"

IdleWalk ==
    /\ tree = <<>> /\ pc = "idle" /\ di = 0 /\ fi = 0 /\ filepath = <<>>
    /\ funcs = 0 /\ docs = 0 /\ coverage = [num |-> 0, den |-> 1]
    /\ total_funcs = 0 /\ total_documented = 0
    /\ overall_coverage = [num |-> 0, den |-> 1] /\ out = <<>>

IdleRun == run = 1 /\ prev_out = <<>>

IdlePct == pdocs = 0 /\ pfuncs = 0 /\ ptext = <<>>

(***************************************************************************)
(* One call of analyze_file: lines 5-6 have read the file, the call        *)
(* returns the pair of line 22.                                            *)
(***************************************************************************)
AnalyzeCall ==
    /\ apc = "call"
    /\ ret' = analyze_file(lines)
    /\ apc' = "return"
    /\ UNCHANGED <<lines, walkVars, runVars, pctVars>>

\* Files of up to MaxLines lines, blank but for three lines of these kinds.
BlankLine == <<"\n">>
DeclLine == <<"f", "u", "n", "c", " ", "f", "\n">>
DocLine == <<"/", "/", "/", " ", "d", "\n">>
DeclDocLine == <<"i", "n", "i", "t", "(", ")", " ", "/", "/", "/", "\n">>
CommentLine == <<"/", "/", " ", "/", "\n">>
LineKinds == {BlankLine, DeclLine, DocLine, DeclDocLine, CommentLine}

ScanInit ==
    /\ \E n \in 0..MaxLines :
         \E p1, p2, p3 \in 1..Max(n, 1) :
           \E k1, k2, k3 \in LineKinds :
             /\ p1 <= p2 /\ p2 <= p3
             /\ lines = [j \in 1..n |-> IF j = p1 THEN k1
                                        ELSE IF j = p2 THEN k2
                                        ELSE IF j = p3 THEN k3
                                        ELSE BlankLine]
    /\ ret = <<0, 0>> /\ apc = "call"
    /\ IdleWalk /\ IdleRun /\ IdlePct

SpecScan == ScanInit /\ [][AnalyzeCall]_vars

\* One-line files: white space, up to three words with gaps after them, a tail.
Gap(n) == [k \in 1..n |-> " "]
Gaps == {Gap(n) : n \in 0..MaxGap} \cup {<<"\t">>}
kw_file_private == <<"f", "i", "l", "e", "-", "p", "r", "i", "v", "a", "t", "e">>
LeadWords ==
    {<<>>, kw_public, kw_private, kw_internal, kw_fileprivate, kw_file_private,
     kw_static}
DeclWords == {<<>>, kw_func, kw_init}
Tails ==
    {<<>>, <<"f">>, <<"(">>, <<"b", "a", "r", "(", ")", " ", "{", "\n">>,
     <<"1">>, <<"?", "(">>, <<"-">>, <<"\n">>}

MatchInit ==
    /\ \E g0, g1, g2, g3 \in Gaps :
         \E w1, w2 \in LeadWords :
           \E w3 \in DeclWords :
             \E t \in Tails :
               lines = <<g0 \o w1 \o g1 \o w2 \o g2 \o w3 \o g3 \o t>>
    /\ ret = <<0, 0>> /\ apc = "call"
    /\ IdleWalk /\ IdleRun /\ IdlePct

SpecMatch == MatchInit /\ [][AnalyzeCall]_vars

(***************************************************************************)
(* Claims about analyze_file.                                              *)
(***************************************************************************)
\* the line with 0-based index i of the analyzed file
LineAt(i) == lines[i + 1]

\* the 0-based indices of the analyzed file's declarations
DeclIndices == {i \in 0..(Len(lines) - 1) : re_match(LineAt(i))}

\* three consecutive slashes somewhere in the line
ContainsTripleSlash(line) ==
    \E p \in 1..Len(line) :
        /\ p + 2 <= Len(line)
        /\ line[p] = "/" /\ line[p + 1] = "/" /\ line[p + 2] = "/"

\* a line among the (at most) ten just above index i has the marker
MarkerJustAbove(i) ==
    \E j \in 0..(Len(lines) - 1) :
        /\ j < i /\ j >= i - 10 /\ j >= 0
        /\ ContainsTripleSlash(LineAt(j))

\* C2: a detected declaration at 0-based index i is counted as documented iff
\* some line with index in [max(0, i-10), i) contains '///'; the declaration
\* line itself and lines more than 10 above never count, so a declaration at
\* line 0 is never documented, and a marker on line 0 does not document a
\* declaration at line 11.
C2_WindowRule ==
    apc = "return" =>
        /\ \A i \in DeclIndices : IsDocumented(lines, i) <=> MarkerJustAbove(i)
        /\ ret[2] = Cardinality({i \in DeclIndices : MarkerJustAbove(i)})
        /\ (0 \in DeclIndices => ~IsDocumented(lines, 0))
        /\ (/\ 11 \in DeclIndices
            /\ \A j \in 1..11 : ~ContainsTripleSlash(LineAt(j))
            => ~IsDocumented(lines, 11))

\* A marker on line 0, declarations at lines 10 and 11: only the first counts.
C2_Witness ==
    /\ apc = "return"
    /\ Len(lines) = 12
    /\ LineAt(0) = DocLine /\ LineAt(10) = DeclLine /\ LineAt(11) = DeclLine
    /\ ret = <<2, 1>>

\* the sequence s without its first n elements
DropN(s, n) == SubSeq(s, n + 1, Len(s))

RECURSIVE LStrip(_)
\* the sequence s without its leading white space
LStrip(s) == IF s # <<>> /\ s[1] \in WhiteSpace THEN LStrip(Tail(s)) ELSE s

StartsWith(s, w) == Len(s) >= Len(w) /\ SubSeq(s, 1, Len(w)) = w

\* s starts with the keyword w and white space follows it
KeywordThenSpace(s, w) ==
    /\ StartsWith(s, w)
    /\ Len(s) > Len(w)
    /\ s[Len(w) + 1] \in WhiteSpace

\* what follows the keyword w and the white space after it
AfterKeyword(s, w) == LStrip(DropN(s, Len(w)))

\* What can follow the optional visibility keyword and the optional 'static'
\* of a line, each followed by white space, leading white space stripped.
AfterModifiers(line) ==
    LET a == LStrip(line)
        Visibility == {kw_public, kw_private, kw_internal, kw_fileprivate}
        r1 == {a} \cup {AfterKeyword(a, v) :
                            v \in {u \in Visibility : KeywordThenSpace(a, u)}}
    IN  r1 \cup {AfterKeyword(r, kw_static) :
                     r \in {q \in r1 : KeywordThenSpace(q, kw_static)}}

\* 'func', white space, at least one word character
FuncThenIdentifier(r) ==
    /\ KeywordThenSpace(r, kw_func)
    /\ AfterKeyword(r, kw_func) # <<>>
    /\ AfterKeyword(r, kw_func)[1] \in WordChars

\* 'init' immediately followed by '('
InitThenParen(r) == StartsWith(r, kw_init \o LParen)

\* 'init', optional white space, '('
InitGapParen(r) ==
    /\ StartsWith(r, kw_init)
    /\ StartsWith(LStrip(DropN(r, Len(kw_init))), LParen)

\* 'public static func bar() {'
PublicStaticFuncBar ==
    kw_public \o <<" ">> \o kw_static \o <<" ">> \o kw_func \o <<" ">>
        \o <<"b", "a", "r", "(", ")", " ", "{", "\n">>

\* C3 as stated: a line is counted as a declaration exactly when, leading
\* white space stripped, it is an optional visibility keyword and white space,
\* an optional 'static' and white space, then 'func', white space and an
\* identifier, or 'init' immediately followed by '('.
C3_AsStated ==
    apc = "return" /\ Len(lines) = 1 =>
        (ret[1] = 1 <=>
            \E r \in AfterModifiers(lines[1]) :
                FuncThenIdentifier(r) \/ InitThenParen(r))

\* C3 as amended: the same, with optional white space allowed between 'init'
\* and '(' (the visibility keywords spelled public, private, internal,
\* fileprivate; an identifier being at least one word character).
C3_DeclarationPattern ==
    apc = "return" /\ Len(lines) = 1 =>
        /\ ret[1] \in {0, 1}
        /\ ret[1] = 1 <=>
            \E r \in AfterModifiers(lines[1]) :
                FuncThenIdentifier(r) \/ InitGapParen(r)
        /\ (lines[1] = PublicStaticFuncBar => ret[1] = 1)

\* 'public static init (' is counted as a declaration.
C3_Witness ==
    /\ apc = "return"
    /\ lines = <<kw_public \o <<" ">> \o kw_static \o <<" ">> \o kw_init
                   \o <<" ">> \o LParen>>
    /\ ret[1] = 1


(***************************************************************************)
(* Formatting of a percentage (lines 34-35 and 37-38).                     *)
(*                                                                         *)
(* docs / funcs * 100 is a float; the model keeps it as the exact fraction *)
(* num/den.  '{:.1f}' rounds the float to the nearest tenth, an exact tie  *)
(* going to the even digit.  The exact fraction formats as the float does  *)
(* for every 0 <= docs <= funcs < 80 (at funcs = 80 the float of 23/80*100 *)
(* falls just below the tie 28.75).                                        *)
(***************************************************************************)
\* (docs / funcs * 100) if funcs > 0 else 0
Coverage(d, t) ==
    IF t > 0 THEN [num |-> d * 100, den |-> t] ELSE [num |-> 0, den |-> 1]


\* Mutant of the rounding of lines 35 and 38: the digits after the first
\* decimal are cut off.
RoundDown(n, d) == n \div d

\* n/d rounded to the nearest integer, a tie to the even one
RoundHalfEven(n, d) ==
    LET q == n \div d
        r == n % d
    IN  IF 2 * r > d \/ (2 * r = d /\ q % 2 = 1) THEN q + 1 ELSE q

DigitChar(k) == <<"0", "1", "2", "3", "4", "5", "6", "7", "8", "9">>[k + 1]

RECURSIVE IntStr(_)
\* str(n) for n >= 0
IntStr(n) ==
    IF n < 10 THEN <<DigitChar(n)>>
    ELSE Append(IntStr(n \div 10), DigitChar(n % 10))


\* Mutant of lines 35 and 38: f'{c:.0f}'
Fmt0(c) == IntStr(RoundHalfEven(c.num, c.den))

\* f'{c:.1f}'
Fmt1(c) ==
    LET tenths == RoundHalfEven(c.num * 10, c.den)
    IN  IntStr(tenths \div 10) \o <<".">> \o <<DigitChar(tenths % 10)>>

FormatPct ==
    /\ ptext = <<>>
    /\ ptext' = Fmt1(Coverage(pdocs, pfuncs))
    /\ UNCHANGED <<pdocs, pfuncs, analyzeVars, walkVars, runVars>>

PctInit ==
    /\ pfuncs \in 0..MaxCount
    /\ pdocs \in 0..pfuncs
    /\ ptext = <<>>
    /\ IdleAnalyze /\ IdleWalk /\ IdleRun

SpecPct == PctInit /\ [][FormatPct]_vars

(***************************************************************************)
(* The directory tree.  tree[d] is the list `files` os.walk yields for the *)
(* d-th directory it visits, each entry with what open() and readlines()   *)
(* give for it: the file's lines, or a failure.  Paths are sequences of    *)
(* components.                                                             *)
(***************************************************************************)
RootPath == <<"Users", "cybou", "Documents", "SwiftS3", "Sources", "SwiftS3">>

\* the root and two nested directories, in the order os.walk visits them
WalkDirs ==
    <<RootPath, RootPath \o <<"Sub">>, RootPath \o <<"Sub", "Deep">> >>

DotSwift == <<".", "s", "w", "i", "f", "t">>


\* Mutant of line 29: `suffix in name` for name.endswith(suffix)
contains(name, suffix) ==
    \E p \in 1..Len(name) :
        /\ p + Len(suffix) - 1 <= Len(name)
        /\ SubSeq(name, p, p + Len(suffix) - 1) = suffix

\* name.endswith(suffix)
endswith(name, suffix) ==
    /\ Len(name) >= Len(suffix)
    /\ SubSeq(name, Len(name) - Len(suffix) + 1, Len(name)) = suffix

\* os.path.join(root, file)
join(root, file) == Append(root, file)

\* os.path.basename(filepath)
basename(path) == path[Len(path)]

\* os.path.dirname(filepath)
dirname(path) == SubSeq(path, 1, Len(path) - 1)

\* names that end with '.swift', and one that only contains it
SwiftNames == {<<"A">> \o DotSwift, <<"B">> \o DotSwift}
OtherNames == {<<"A">> \o DotSwift \o <<".", "b", "a", "k">>}
FileNames == SwiftNames \cup OtherNames

\* files of results (0, 0), (1, 1) and (3, 1)
EmptyText == <<>>
DocumentedText == <<DocLine, DeclLine>>
MixedText == <<DeclLine, DeclLine, DocLine, DeclLine>>
TextSet == {EmptyText, DocumentedText, MixedText}

\* A file that cannot be read has no text; the text of a file the script
\* does not open is never looked at, and one text is given to it.
Entries ==
    [name : SwiftNames, readable : {TRUE}, text : TextSet]
      \cup [name : OtherNames, readable : {TRUE}, text : {MixedText}]
      \cup [name : FileNames, readable : {FALSE}, text : {<<>>}]

\* the lists of k entries with distinct names
Listings(k) ==
    {l \in [1..k -> Entries] :
        \A a, b \in 1..k : a # b => l[a].name # l[b].name}

\* the file open(path) opens
FileAt(path) ==
    LET d == CHOOSE x \in 1..Len(WalkDirs) : WalkDirs[x] = dirname(path)
    IN  CHOOSE e \in {tree[d][k] : k \in 1..Len(tree[d])} :
            e.name = basename(path)

(***************************************************************************)
(* The module-level loop (lines 24-38), one action per statement.          *)
(*                                                                         *)
(* pc: "walk" (the loop heads of lines 27-29, about to look at entry fi of *)
(* directory di), "analyze" (31), "add_funcs" (32), "add_docs" (33),       *)
(* "coverage" (34), "print" (35), "overall" (37), "print_overall" (38),    *)
(* "done" (the script has ended), "crashed" (an exception has ended it).   *)
(* out is the standard output, a sequence of lines.                        *)
(***************************************************************************)

Reverse(l) == [k \in 1..Len(l) |-> l[Len(l) + 1 - k]]

\* Mutant of line 28: the names are iterated in an order that is not the same
\* in every process (that of a set of strings, say).
ListingUnstable(d) == IF run = 2 THEN Reverse(tree[d]) ELSE tree[d]

\* `files` of the d-th directory visited
ListingOf(d) == tree[d]

\* the loop variables of lines 27-28
root == WalkDirs[di]
file == ListingOf(di)[fi].name

FileLine(name, d, t, pct) ==
    [kind |-> "file", name |-> name, docs |-> d, funcs |-> t, pct |-> pct]
EmptyLine ==
    [kind |-> "blank", name |-> <<>>, docs |-> 0, funcs |-> 0, pct |-> <<>>]
OverallLine(d, t, pct) ==
    [kind |-> "overall", name |-> <<>>, docs |-> d, funcs |-> t, pct |-> pct]

\* lines 24-25; funcs, docs, coverage and filepath are not yet bound
ProgramStart ==
    /\ pc = "walk" /\ di = 1 /\ fi = 1
    /\ total_funcs = 0 /\ total_documented = 0
    /\ filepath = <<>> /\ funcs = 0 /\ docs = 0
    /\ coverage = [num |-> 0, den |-> 1]
    /\ overall_coverage = [num |-> 0, den |-> 1]
    /\ out = <<>>

Init ==
    /\ \E n1, n2, n3 \in 0..MaxFiles :
         /\ n1 + n2 + n3 <= MaxFiles
         /\ \E l1 \in Listings(n1), l2 \in Listings(n2), l3 \in Listings(n3) :
              tree = <<l1, l2, l3>>
    /\ ProgramStart
    /\ IdleAnalyze /\ IdleRun /\ IdlePct

\* line 27: os.walk yields the next directory
NextDir ==
    /\ pc = "walk"
    /\ fi > Len(ListingOf(di))
    /\ di < Len(WalkDirs)
    /\ di' = di + 1
    /\ fi' = 1
    /\ UNCHANGED <<tree, pc, filepath, funcs, docs, coverage, total_funcs,
                   total_documented, overall_coverage, out>>
    /\ UNCHANGED <<analyzeVars, runVars, pctVars>>

\* line 27: os.walk is exhausted
WalkEnd ==
    /\ pc = "walk"
    /\ fi > Len(ListingOf(di))
    /\ di = Len(WalkDirs)
    /\ pc' = "overall"
    /\ UNCHANGED <<tree, di, fi, filepath, funcs, docs, coverage, total_funcs,
                   total_documented, overall_coverage, out>>
    /\ UNCHANGED <<analyzeVars, runVars, pctVars>>

\* lines 28-29: the name does not end with '.swift'
SkipFile ==
    /\ pc = "walk"
    /\ fi <= Len(ListingOf(di))
    /\ ~endswith(file, DotSwift)
    /\ fi' = fi + 1
    /\ UNCHANGED <<tree, pc, di, filepath, funcs, docs, coverage, total_funcs,
                   total_documented, overall_coverage, out>>
    /\ UNCHANGED <<analyzeVars, runVars, pctVars>>

\* lines 28-30: the name ends with '.swift'
TakeFile ==
    /\ pc = "walk"
    /\ fi <= Len(ListingOf(di))
    /\ endswith(file, DotSwift)
    /\ filepath' = join(root, file)
    /\ pc' = "analyze"
    /\ UNCHANGED <<tree, di, fi, funcs, docs, coverage, total_funcs,
                   total_documented, overall_coverage, out>>
    /\ UNCHANGED <<analyzeVars, runVars, pctVars>>


\* Mutant of lines 8 and 14: func_lines and documented live across calls,
\* so that a call's counts include those of the call before.
AnalyzeOkLeaky ==
    /\ pc = "analyze"
    /\ FileAt(filepath).readable
    /\ funcs' = funcs + analyze_file(FileAt(filepath).text)[1]
    /\ docs' = docs + analyze_file(FileAt(filepath).text)[2]
    /\ pc' = "add_funcs"
    /\ UNCHANGED <<tree, di, fi, filepath, coverage, total_funcs,
                   total_documented, overall_coverage, out>>
    /\ UNCHANGED <<analyzeVars, runVars, pctVars>>

\* line 31: analyze_file returns
AnalyzeOk ==
    /\ pc = "analyze"
    /\ FileAt(filepath).readable
    /\ funcs' = analyze_file(FileAt(filepath).text)[1]
    /\ docs' = analyze_file(FileAt(filepath).text)[2]
    /\ pc' = "add_funcs"
    /\ UNCHANGED <<tree, di, fi, filepath, coverage, total_funcs,
                   total_documented, overall_coverage, out>>
    /\ UNCHANGED <<analyzeVars, runVars, pctVars>>


\* Mutant of line 31: the exception is caught and the file skipped.
AnalyzeSkips ==
    /\ pc = "analyze"
    /\ ~FileAt(filepath).readable
    /\ pc' = "walk"
    /\ fi' = fi + 1
    /\ UNCHANGED <<tree, di, filepath, funcs, docs, coverage, total_funcs,
                   total_documented, overall_coverage, out>>
    /\ UNCHANGED <<analyzeVars, runVars, pctVars>>

\* line 31: open or readlines (lines 5-6) raises, nothing catches it
AnalyzeRaises ==
    /\ pc = "analyze"
    /\ ~FileAt(filepath).readable
    /\ pc' = "crashed"
    /\ UNCHANGED <<tree, di, fi, filepath, funcs, docs, coverage, total_funcs,
                   total_documented, overall_coverage, out>>
    /\ UNCHANGED <<analyzeVars, runVars, pctVars>>


\* Mutant of line 32: '=' written for '+='.
AddFuncsAssign ==
    /\ pc = "add_funcs"
    /\ total_funcs' = funcs
    /\ pc' = "add_docs"
    /\ UNCHANGED <<tree, di, fi, filepath, funcs, docs, coverage,
                   total_documented, overall_coverage, out>>
    /\ UNCHANGED <<analyzeVars, runVars, pctVars>>

\* line 32
AddFuncs ==
    /\ pc = "add_funcs"
    /\ total_funcs' = total_funcs + funcs
    /\ pc' = "add_docs"
    /\ UNCHANGED <<tree, di, fi, filepath, funcs, docs, coverage,
                   total_documented, overall_coverage, out>>
    /\ UNCHANGED <<analyzeVars, runVars, pctVars>>

\* line 33
AddDocs ==
    /\ pc = "add_docs"
    /\ total_documented' = total_documented + docs
    /\ pc' = "coverage"
    /\ UNCHANGED <<tree, di, fi, filepath, funcs, docs, coverage,
                   total_funcs, overall_coverage, out>>
    /\ UNCHANGED <<analyzeVars, runVars, pctVars>>

\* line 34
SetCoverage ==
    /\ pc = "coverage"
    /\ coverage' = Coverage(docs, funcs)
    /\ pc' = "print"
    /\ UNCHANGED <<tree, di, fi, filepath, funcs, docs, total_funcs,
                   total_documented, overall_coverage, out>>
    /\ UNCHANGED <<analyzeVars, runVars, pctVars>>

\* line 35, and on to the next entry of `files`
PrintFile ==
    /\ pc = "print"
    /\ out' = Append(out, FileLine(basename(filepath), docs, funcs,
                                   Fmt1(coverage)))
    /\ pc' = "walk"
    /\ fi' = fi + 1
    /\ UNCHANGED <<tree, di, filepath, funcs, docs, coverage, total_funcs,
                   total_documented, overall_coverage>>
    /\ UNCHANGED <<analyzeVars, runVars, pctVars>>

\* line 37
SetOverall ==
    /\ pc = "overall"
    /\ overall_coverage' = Coverage(total_documented, total_funcs)
    /\ pc' = "print_overall"
    /\ UNCHANGED <<tree, di, fi, filepath, funcs, docs, coverage, total_funcs,
                   total_documented, out>>
    /\ UNCHANGED <<analyzeVars, runVars, pctVars>>


\* Mutant of line 38: the '\n' that starts the text is left out.
PrintOverallNoNewline ==
    /\ pc = "print_overall"
    /\ out' = Append(out, OverallLine(total_documented, total_funcs,
                                      Fmt1(overall_coverage)))
    /\ pc' = "done"
    /\ UNCHANGED <<tree, di, fi, filepath, funcs, docs, coverage, total_funcs,
                   total_documented, overall_coverage>>
    /\ UNCHANGED <<analyzeVars, runVars, pctVars>>

\* line 38: print(f'\nOverall: ...') writes an empty line and the summary
PrintOverall ==
    /\ pc = "print_overall"
    /\ out' = out \o <<EmptyLine,
                       OverallLine(total_documented, total_funcs,
                                   Fmt1(overall_coverage))>>
    /\ pc' = "done"
    /\ UNCHANGED <<tree, di, fi, filepath, funcs, docs, coverage, total_funcs,
                   total_documented, overall_coverage>>
    /\ UNCHANGED <<analyzeVars, runVars, pctVars>>

Next ==
    \/ NextDir \/ WalkEnd \/ SkipFile \/ TakeFile
    \/ AnalyzeOk \/ AnalyzeRaises
    \/ AddFuncs \/ AddDocs \/ SetCoverage \/ PrintFile
    \/ SetOverall \/ PrintOverall

Spec == Init /\ [][Next]_vars

(***************************************************************************)
(* A second execution of the script over the unchanged tree, once the      *)
(* first has ended: a new process starts at line 24; the standard output   *)
(* of the first is kept in prev_out.                                       *)
(***************************************************************************)
RunAgain ==
    /\ run = 1
    /\ pc \in {"done", "crashed"}
    /\ run' = 2
    /\ prev_out' = out
    /\ pc' = "walk" /\ di' = 1 /\ fi' = 1
    /\ total_funcs' = 0 /\ total_documented' = 0
    /\ filepath' = <<>> /\ funcs' = 0 /\ docs' = 0
    /\ coverage' = [num |-> 0, den |-> 1]
    /\ overall_coverage' = [num |-> 0, den |-> 1]
    /\ out' = <<>>
    /\ UNCHANGED <<tree, analyzeVars, pctVars>>

NextTwice == Next \/ RunAgain

SpecTwice == Init /\ [][NextTwice]_vars

(***************************************************************************)
(* Claims about the module-level loop.  A position <<d, k>> is entry k of  *)
(* the d-th directory visited.                                             *)
(***************************************************************************)
AllPos == UNION {{<<d, k>> : k \in 1..Len(tree[d])} : d \in 1..Len(tree)}

EntryAt(p) == tree[p[1]][p[2]]

\* the name is some stem followed by '.swift'
Qualifies(p) ==
    LET name == EntryAt(p).name
    IN  \E n \in 0..Len(name) : name = SubSeq(name, 1, n) \o DotSwift

AllQual == {p \in AllPos : Qualifies(p)}

\* p comes before q in the walk
PosBefore(p, q) == p[1] < q[1] \/ (p[1] = q[1] /\ p[2] < q[2])

Cur == <<di, fi>>

\* the qualifying files the walk has left behind
QualBefore == {p \in AllQual : PosBefore(p, Cur)}

\* what analyze_file returns for the file at p
ResultAt(p) == analyze_file(EntryAt(p).text)

RECURSIVE SumOf(_, _)
\* the sum over the positions of S of component i of the result
SumOf(S, i) ==
    IF S = {} THEN 0
    ELSE LET p == CHOOSE x \in S : TRUE
         IN  ResultAt(p)[i] + SumOf(S \ {p}, i)

SumsOver(S) == <<SumOf(S, 1), SumOf(S, 2)>>

Totals == <<total_funcs, total_documented>>

\* the qualifying positions in the order of the walk
QualSeq ==
    LET PosOf(d) == [k \in 1..Len(tree[d]) |-> <<d, k>>]
    IN  SelectSeq(PosOf(1) \o PosOf(2) \o PosOf(3), Qualifies)

NoReadError == \A p \in AllQual : EntryAt(p).readable

\* the place in QualSeq of the first file that cannot be read
FirstBad ==
    CHOOSE k \in 1..Len(QualSeq) :
        /\ ~EntryAt(QualSeq[k]).readable
        /\ \A j \in 1..(k - 1) : EntryAt(QualSeq[j]).readable

ZeroPointZero == <<"0", ".", "0">>

\* C1, for the files of SpecScan: analyze_file returns (total, documented)
\* with 0 <= documented <= total <= the number of lines.
C1_ScanResultBounded ==
    apc = "return" =>
        /\ 0 <= ret[2] /\ ret[2] <= ret[1]
        /\ ret[1] <= Len(lines)

\* C1: analyze_file returns (total, documented) with 0 <= documented <= total,
\* and total_documented <= total_funcs in every state of the run, the state
\* between the two accumulation statements of one file included.
C1_DocumentedAtMostTotal ==
    /\ 0 <= total_documented
    /\ total_documented <= total_funcs
    /\ \A p \in AllPos :
        LET r == ResultAt(p) IN 0 <= r[2] /\ r[2] <= r[1]
    /\ (pc \in {"add_funcs", "add_docs", "coverage", "print"} =>
            0 <= docs /\ docs <= funcs)

\* Between lines 32 and 33 for a second file, every declaration so far documented.
C1_Witness ==
    /\ pc = "add_docs"
    /\ funcs = 1 /\ docs = 1
    /\ total_funcs = 2 /\ total_documented = 1

\* the last line written
LastOut == out[Len(out)]

\* C4 as stated: at every point of the run the running totals equal the sums
\* of the results of the files processed so far (the file in hand counted
\* either as processed or as not yet processed), every qualifying file
\* accumulated once and no other file contributing; the Overall line reports
\* the final sums.
C4_AsStated ==
    /\ \/ Totals = SumsOver(QualBefore)
       \/ /\ pc \in {"add_funcs", "add_docs", "coverage", "print"}
          /\ Totals = SumsOver(QualBefore \cup {Cur})
    /\ (pc = "done" =>
            /\ QualBefore = AllQual
            /\ LastOut.kind = "overall"
            /\ <<LastOut.funcs, LastOut.docs>> = SumsOver(AllQual))

\* C4 as amended: the same at every point but the one between the two
\* accumulation statements of a file (lines 32 and 33), where total_funcs
\* already includes the file in hand and total_documented does not yet.
C4_TotalsAreSums ==
    /\ (pc \in {"walk", "analyze", "add_funcs", "overall", "print_overall",
                "done", "crashed"} =>
            Totals = SumsOver(QualBefore))
    /\ (pc = "add_docs" =>
            /\ total_funcs = SumOf(QualBefore \cup {Cur}, 1)
            /\ total_documented = SumOf(QualBefore, 2))
    /\ (pc \in {"coverage", "print"} =>
            Totals = SumsOver(QualBefore \cup {Cur}))
    /\ (pc \in {"analyze", "add_funcs", "add_docs", "coverage", "print",
                "crashed"} =>
            Cur \in AllQual)
    /\ (pc \in {"overall", "print_overall", "done"} => QualBefore = AllQual)
    /\ (pc = "done" =>
            /\ LastOut.kind = "overall"
            /\ <<LastOut.funcs, LastOut.docs>> = SumsOver(AllQual))

\* A qualifying file one directory down, a non-qualifying file two down.
C4_Witness ==
    /\ pc = "done"
    /\ Len(tree[1]) = 0 /\ Len(tree[2]) = 1 /\ Len(tree[3]) = 1
    /\ <<2, 1>> \in AllQual /\ <<3, 1>> \notin AllQual
    /\ EntryAt(<<3, 1>>).text # <<>>
    /\ Totals = <<3, 1>>

\* C6 as stated: with no file matching the extension under the root, the
\* output of the run is the single line 'Overall: 0/0 (0.0%)', nothing else.
C6_AsStated ==
    pc = "done" /\ AllQual = {} =>
        out = <<OverallLine(0, 0, ZeroPointZero)>>

\* C6 as amended: with no file matching the extension under the root, the
\* output of the run is an empty line followed by 'Overall: 0/0 (0.0%)',
\* nothing else.
C6_NoMatchingFiles ==
    pc = "done" /\ AllQual = {} =>
        out = <<EmptyLine, OverallLine(0, 0, ZeroPointZero)>>

\* The run has ended over a tree of two files, neither matching.
C6_Witness ==
    /\ pc = "done"
    /\ AllQual = {}
    /\ Cardinality(AllPos) = 2
    /\ Len(out) = 2

\* the per-file line of the k-th qualifying file
IsLineOf(l, k) ==
    /\ l.kind = "file"
    /\ l.name = EntryAt(QualSeq[k]).name

\* out is a beginning of: one line per qualifying file, in the order of the
\* walk, an empty line, an Overall line
OutInShape ==
    /\ Len(out) <= Len(QualSeq) + 2
    /\ \A k \in 1..Len(out) :
        /\ k <= Len(QualSeq) => IsLineOf(out[k], k)
        /\ k = Len(QualSeq) + 1 => out[k] = EmptyLine
        /\ k = Len(QualSeq) + 2 => out[k].kind = "overall"

\* the entries of the walk not yet left behind
EntriesLeft == Cardinality({p \in AllPos : ~PosBefore(p, Cur)})

\* a bound on the statements the run has yet to execute
StepsLeft ==
    CASE pc = "walk" -> 7 * EntriesLeft + (Len(WalkDirs) - di) + 3
      [] pc = "analyze" -> 7 * EntriesLeft + (Len(WalkDirs) - di) + 2
      [] pc = "add_funcs" -> 7 * EntriesLeft + (Len(WalkDirs) - di) + 1
      [] pc = "add_docs" -> 7 * EntriesLeft + (Len(WalkDirs) - di)
      [] pc = "coverage" -> 7 * EntriesLeft + (Len(WalkDirs) - di) - 1
      [] pc = "print" -> 7 * EntriesLeft + (Len(WalkDirs) - di) - 2
      [] pc = "overall" -> 2
      [] pc = "print_overall" -> 1
      [] OTHER -> 0

\* C7: in every run without a read error the output is one line per
\* qualifying file, then one empty line, then exactly one Overall line; no
\* per-file line follows the Overall line, and the process terminates after
\* printing the summary: every statement executed brings the end nearer, the
\* run can stop only once the summary is printed, and then it has stopped.
C7_OutputShape ==
    /\ [](NoReadError =>
            /\ OutInShape
            /\ (Len(out) > Len(QualSeq) => pc = "done")
            /\ (pc = "done" => Len(out) = Len(QualSeq) + 2 /\ ~ENABLED Next)
            /\ (pc # "done" => ENABLED Next)
            /\ StepsLeft >= 0)
    /\ [][NoReadError => StepsLeft' < StepsLeft]_vars

\* Two files analyzed, four lines written, the run over.
C7_Witness ==
    /\ pc = "done"
    /\ NoReadError
    /\ Len(QualSeq) = 2
    /\ Len(out) = 4

\* how many qualifying files have the text t
CountOfText(t) == Cardinality({p \in AllQual : EntryAt(p).text = t})

RECURSIVE WeightedSum(_, _)
\* the sum over the texts t of T of CountOfText(t) times component i of
\* analyze_file(t): a value that depends on no order of the files
WeightedSum(T, i) ==
    IF T = {} THEN 0
    ELSE LET t == CHOOSE x \in T : TRUE
         IN  CountOfText(t) * analyze_file(t)[i] + WeightedSum(T \ {t}, i)

\* C8: the result for a file depends only on that file's text: whatever was
\* analyzed before it, its line carries analyze_file of its own text, two
\* files of the same text get the same counts, and the final totals are the
\* same for every order in which the same files are visited.
C8_OrderIndependent ==
    /\ \A k \in 1..Len(out) :
        out[k].kind = "file" =>
            <<out[k].funcs, out[k].docs>> = analyze_file(EntryAt(QualSeq[k]).text)
    /\ \A j, k \in 1..Len(out) :
        /\ out[j].kind = "file" /\ out[k].kind = "file"
        /\ EntryAt(QualSeq[j]).text = EntryAt(QualSeq[k]).text
        => /\ out[j].funcs = out[k].funcs
           /\ out[j].docs = out[k].docs
           /\ out[j].pct = out[k].pct
    /\ (pc = "done" =>
            /\ total_funcs = WeightedSum(TextSet, 1)
            /\ total_documented = WeightedSum(TextSet, 2))

\* The file of three declarations was analyzed first, the file of one second.
C8_Witness ==
    /\ pc = "done"
    /\ Len(out) = 4
    /\ <<out[1].funcs, out[1].docs>> = <<3, 1>>
    /\ <<out[2].funcs, out[2].docs>> = <<1, 1>>
    /\ Totals = <<4, 2>>

\* C9: two executions over an unchanged tree write the same output: the same
\* per-file lines in the same order, then the same Overall line.
C9_SameOutputTwice ==
    run = 2 =>
        /\ Len(out) <= Len(prev_out)
        /\ \A k \in 1..Len(out) : out[k] = prev_out[k]
        /\ (pc \in {"done", "crashed"} => out = prev_out)

\* The second execution has ended, two files analyzed.
C9_Witness ==
    /\ run = 2
    /\ pc = "done"
    /\ Len(out) = 4
    /\ out[1].name # out[2].name

\* C10: if a qualifying file cannot be opened or decoded the run ends at that
\* file: no line is printed for it, no later file is analyzed or accumulated,
\* the totals are not changed by it, no empty line and no Overall line is ever
\* printed, and the lines of the earlier files remain.
C10_ReadErrorEndsRun ==
    /\ [](~NoReadError =>
            LET bad == FirstBad
                badPos == QualSeq[bad]
            IN  /\ ~PosBefore(badPos, Cur)
                /\ pc \notin {"overall", "print_overall", "done"}
                /\ Len(out) < bad
                /\ \A k \in 1..Len(out) : IsLineOf(out[k], k)
                /\ (Cur = badPos =>
                        /\ pc \in {"walk", "analyze", "crashed"}
                        /\ Totals = SumsOver(QualBefore)
                        /\ Len(out) = bad - 1)
                /\ (pc = "crashed" => Cur = badPos /\ ~ENABLED Next))
    /\ [](pc = "crashed" => ~NoReadError)
    /\ [][pc = "analyze" /\ ~FileAt(filepath).readable =>
            /\ pc' = "crashed"
            /\ out' = out
            /\ Totals' = Totals]_vars

\* The second file could not be read: the run has ended, one line written.
C10_Witness ==
    /\ pc = "crashed"
    /\ Len(out) = 1
    /\ Totals = <<3, 1>>
    /\ FirstBad = 2

(***************************************************************************)
(* Claims about the formatting of a percentage.                            *)
(***************************************************************************)
DigitChars == {DigitChar(k) : k \in 0..9}

DigitVal(c) == CHOOSE k \in 0..9 : DigitChar(k) = c

RECURSIVE IntVal(_)
\* the number a sequence of digits denotes
IntVal(ds) ==
    IF ds = <<>> THEN 0
    ELSE 10 * IntVal(SubSeq(ds, 1, Len(ds) - 1)) + DigitVal(ds[Len(ds)])

\* digits, a point, one digit; no leading zero but in '0.d'
WellFormed(t) ==
    /\ Len(t) >= 3
    /\ t[Len(t) - 1] = "."
    /\ t[Len(t)] \in DigitChars
    /\ \A k \in 1..(Len(t) - 2) : t[k] \in DigitChars
    /\ (Len(t) > 3 => t[1] # "0")

\* the number of tenths a well-formed text denotes
TenthsOf(t) == 10 * IntVal(SubSeq(t, 1, Len(t) - 2)) + DigitVal(t[Len(t)])

\* C5: the percentage printed is documented/total*100 rounded to one decimal
\* place when total > 0 and '0.0' when total is 0; 0/0 gives '0.0', 1/3 gives
\* '33.3', and the percentage is between 0.0 and 100.0.
C5_PercentageRounded ==
    ptext # <<>> =>
        /\ WellFormed(ptext)
        /\ 0 <= TenthsOf(ptext) /\ TenthsOf(ptext) <= 1000
        /\ (pfuncs = 0 => ptext = ZeroPointZero)
        /\ (pfuncs > 0 =>
                LET err == TenthsOf(ptext) * pfuncs - 1000 * pdocs
                IN  2 * err <= pfuncs /\ 2 * err >= -pfuncs)
        /\ (pdocs = 1 /\ pfuncs = 3 => ptext = <<"3", "3", ".", "3">>)

\* 2/3 was formatted, as '66.7'.
C5_Witness ==
    /\ pdocs = 2 /\ pfuncs = 3
    /\ ptext = <<"6", "6", ".", "7">>

====
